---- MODULE Spec2Model ----
(***************************************************************************)
(* A model of GeneSearchAgent.search (agents/Gene_search/worker.py): tool  *)
(* selection, argument generation, the thread-pool fan-out, the mapper     *)
(* convert_to_structured_result with its gene dedup map, the explanation   *)
(* step, the extra quickgo call and the response dict.                     *)
(*                                                                         *)
(* Encodings.  A Python value that may be None is a sequence of length at  *)
(* most one: None is <<>>, the value v is <<v>>.  A raw JSON object is a   *)
(* record whose DOMAIN is the set of keys present.  A keyword-argument     *)
(* dict is a record as well.  A raw tool result is tagged with its Python  *)
(* type: "none", "list" (rows) or "dict" (obj).  Wall-clock times are left *)
(* out.  The retry loop of tooling._get/_post, the worker pool of         *)
(* execute_tools_parallel with an arbitrary batch size and the /chat       *)
(* endpoint of main.py have specifications of their own (HttpSpec,         *)
(* PoolSpec, ChatSpec) over their own variables.                           *)
(***************************************************************************)
EXTENDS Integers, Sequences, FiniteSets, TLC

\* Largest genomic coordinate the modelled upstream payloads carry.
MaxCoord == 1

Coords == 0..MaxCoord

\* Most argument-generation LLM calls of one run that do not follow the schema
\* (no function call came back, or its values are out of the declared bounds).
MaxArgFallbacks == 1

None == <<>>

Some(v) == <<v>>

\* ---------------------------------------------------------------------------
\* Python helpers
\* ---------------------------------------------------------------------------

\* dict.get(k): None when the key is absent.
Get(e, k) == IF k \in DOMAIN e THEN Some(e[k]) ELSE None

\* dict.get(k, default)
GetD(e, k, dflt) == IF k \in DOMAIN e THEN Some(e[k]) ELSE Some(dflt)

\* entry.get(k1, {}).get(k2)
Get2(e, k1, k2) == IF k1 \in DOMAIN e THEN Get(e[k1], k2) ELSE None

\* Truthiness of an optional string: None and "" are falsy.
TruthyS(v) == v # None /\ v # Some("")

\* Truthiness of an optional int: None and 0 are falsy.
TruthyI(v) == v # None /\ v # Some(0)

\* a or b, on optional strings and on optional ints.
OrS(a, b) == IF TruthyS(a) THEN a ELSE b

OrI(a, b) == IF TruthyI(a) THEN a ELSE b

\* ---------------------------------------------------------------------------
\* The tool table and the published schemas
\* ---------------------------------------------------------------------------

\* list(ALL_TOOLS_DICT.keys()), in dict order.
ALL_TOOLS ==
    << "pubmed_search", "pubmed_fetch_summaries", "ensembl_search_genes",
       "ensembl_gene_info", "ensembl_orthologs", "gramene_gene_symbol_search",
       "gramene_gene_search", "gramene_gene_lookup", "gwas_hits",
       "gwas_trait_search", "gwas_advanced_search", "gwas_trait_info",
       "quickgo_annotations", "kegg_pathways", "kegg_gene_info",
       "kegg_convert_id" >>

ToolNames == { ALL_TOOLS[i] : i \in 1..Len(ALL_TOOLS) }

\* The keyword parameters each wrapper's signature accepts.
Accepted(tool) ==
    CASE tool = "pubmed_search" -> {"query", "max_hits"}
      [] tool = "pubmed_fetch_summaries" -> {"pmids"}
      [] tool = "ensembl_search_genes" -> {"keyword", "species", "limit"}
      [] tool = "ensembl_gene_info" -> {"gene_id"}
      [] tool = "ensembl_orthologs" -> {"gene_id", "target_species"}
      [] tool = "gramene_gene_symbol_search" -> {"gene_symbols", "limit"}
      [] tool = "gramene_gene_search" -> {"query", "species", "limit"}
      [] tool = "gramene_gene_lookup" -> {"gene_id"}
      [] tool = "gwas_hits" -> {"gene_name", "pval_threshold", "max_hits"}
      [] tool = "gwas_trait_search" -> {"trait_term", "pval_threshold", "max_hits"}
      [] tool = "gwas_advanced_search" ->
             {"gene_name", "trait_term", "snp_id", "pval_threshold", "max_hits"}
      [] tool = "gwas_trait_info" -> {"trait_term", "max_hits"}
      [] tool = "quickgo_annotations" -> {"gene_product_id", "evidence_codes"}
      [] tool = "kegg_pathways" -> {"gene_id"}
      [] tool = "kegg_gene_info" -> {"gene_id"}
      [] tool = "kegg_convert_id" -> {"source_db", "target_db", "entry_id"}
      [] OTHER -> {}

\* The parameters without a default in each wrapper's signature.
Required(tool) ==
    CASE tool = "pubmed_search" -> {"query"}
      [] tool = "pubmed_fetch_summaries" -> {"pmids"}
      [] tool = "ensembl_search_genes" -> {"keyword", "species"}
      [] tool = "ensembl_gene_info" -> {"gene_id"}
      [] tool = "ensembl_orthologs" -> {"gene_id"}
      [] tool = "gramene_gene_symbol_search" -> {"gene_symbols"}
      [] tool = "gramene_gene_search" -> {"query"}
      [] tool = "gramene_gene_lookup" -> {"gene_id"}
      [] tool = "gwas_hits" -> {"gene_name"}
      [] tool = "gwas_trait_search" -> {"trait_term"}
      [] tool = "gwas_advanced_search" -> {}
      [] tool = "gwas_trait_info" -> {"trait_term"}
      [] tool = "quickgo_annotations" -> {"gene_product_id"}
      [] tool = "kegg_pathways" -> {"gene_id"}
      [] tool = "kegg_gene_info" -> {"gene_id"}
      [] tool = "kegg_convert_id" -> {"source_db", "target_db", "entry_id"}
      [] OTHER -> {}

\* The "required" list of each tool's entry in TOOLING_DICT: the keywords a
\* forced function call that follows the schema supplies.
SchemaRequired(tool) ==
    CASE tool = "pubmed_search" -> {"query"}
      [] tool = "pubmed_fetch_summaries" -> {"pmids"}
      [] tool = "ensembl_search_genes" -> {"keyword", "species"}
      [] tool = "ensembl_gene_info" -> {"gene_id"}
      [] tool = "ensembl_orthologs" -> {"gene_id"}
      [] tool = "gramene_gene_symbol_search" -> {"gene_symbols"}
      [] tool = "gramene_gene_search" -> {"query"}
      [] tool = "gramene_gene_lookup" -> {"gene_id"}
      [] tool = "gwas_hits" -> {"gene_name"}
      [] tool = "gwas_trait_search" -> {"trait_term"}
      [] tool = "gwas_advanced_search" -> {}
      [] tool = "gwas_trait_info" -> {"trait_term"}
      [] tool = "quickgo_annotations" -> {"gene_product_id"}
      [] tool = "kegg_pathways" -> {"gene_id"}
      [] tool = "kegg_gene_info" -> {"gene_id"}
      [] tool = "kegg_convert_id" -> {"source_db", "target_db", "entry_id"}
      [] OTHER -> {}

\* The query of the run; it contains none of the words "salt", "drought",
\* "disease", "resistance" that _generate_fallback_arguments looks for.
Query == "q"

\* The bounds TOOLING_DICT declares for the integer parameters of a tool
\* ("minimum" is 1 wherever "maximum" is declared).
SchemaMaximum(tool) ==
    CASE tool = "pubmed_search" -> [max_hits |-> 50]
      [] tool = "ensembl_search_genes" -> [limit |-> 50]
      [] tool = "gramene_gene_search" -> [limit |-> 100]
      [] tool = "gramene_gene_symbol_search" -> [limit |-> 100]
      [] tool = "gwas_hits" -> [max_hits |-> 100]
      [] tool = "gwas_trait_search" -> [max_hits |-> 100]
      [] tool = "gwas_advanced_search" -> [max_hits |-> 100]
      [] tool = "gwas_trait_info" -> [max_hits |-> 50]
      [] OTHER -> <<>>

\* The array bounds TOOLING_DICT declares: pmids has minItems 1, maxItems 50.
SchemaItems(tool) ==
    IF tool = "pubmed_fetch_summaries" THEN [pmids |-> [minItems |-> 1, maxItems |-> 50]]
    ELSE <<>>

\* Whether a keyword-argument dict respects the declared bounds of its tool.
InBounds(tool, arguments) ==
    /\ \A p \in DOMAIN arguments \cap DOMAIN SchemaMaximum(tool) :
          1 <= arguments[p] /\ arguments[p] <= SchemaMaximum(tool)[p]
    /\ \A p \in DOMAIN arguments \cap DOMAIN SchemaItems(tool) :
          /\ SchemaItems(tool)[p].minItems <= Len(arguments[p])
          /\ Len(arguments[p]) <= SchemaItems(tool)[p].maxItems

\* A value of the declared type for a keyword of the schema.
ArgValue(name) ==
    CASE name \in {"max_hits", "limit"} -> 20
      [] name = "pmids" -> <<"P1", "P2">>
      [] name = "gene_symbols" -> <<"HKT1">>
      [] name = "evidence_codes" -> <<>>
      [] OTHER -> Query

\* The arguments a forced function call may carry (json.loads of the call's
\* arguments): the required keywords with values inside the bounds, or, for
\* the two PubMed tools, a value outside them.
PlannerArguments(tool) ==
    LET inside == [n \in SchemaRequired(tool) |-> ArgValue(n)] IN
    {inside}
    \cup (IF tool = "pubmed_search"
          THEN { [query |-> Query, max_hits |-> SchemaMaximum(tool).max_hits + 1] }
          ELSE {})
    \cup (IF tool = "pubmed_fetch_summaries" THEN { [pmids |-> <<>>] } ELSE {})

\* The dict _generate_fallback_arguments returns for a tool.
generate_fallback_arguments(tool) ==
    CASE tool = "pubmed_search" -> [query |-> Query, max_hits |-> 20]
      [] tool = "ensembl_search_genes" ->
             [keyword |-> Query, species |-> "oryza_sativa", limit |-> 20]
      [] tool = "gramene_gene_search" ->
             [gene_symbols |-> <<>>, trait_terms |-> <<Query>>, limit |-> 30]
      [] tool = "gwas_trait_search" -> [trait_term |-> Query, max_hits |-> 30]
      [] tool = "gwas_hits" -> [gene_name |-> Query, max_hits |-> 30]
      [] tool = "quickgo_annotations" ->
             [gene_product_id |-> "HKT1", evidence_codes |-> <<>>]
      [] tool = "gwas_advanced_search" -> [trait_term |-> Query, max_hits |-> 30]
      [] tool = "gwas_trait_info" -> [trait_term |-> Query, max_hits |-> 10]
      [] OTHER -> <<>>

\* tool_config["function"](**arguments) binds: no missing and no unexpected
\* keyword (otherwise Python raises TypeError at the call).
Binds(tool, arguments) ==
    Required(tool) \subseteq DOMAIN arguments /\ DOMAIN arguments \subseteq Accepted(tool)

\* ---------------------------------------------------------------------------
\* The pydantic models (agents/Gene_search/models.py)
\* ---------------------------------------------------------------------------

\* BaseModel.__init__: a missing required field raises ValidationError.
Validates(required, kwargs) == required \subseteq DOMAIN kwargs

\* BaseModel.__init__ on valid kwargs: declared fields take the keyword's value
\* or their default; keywords that are no field are ignored.
BaseModel(defaults, kwargs) ==
    [f \in DOMAIN defaults |-> IF f \in DOMAIN kwargs THEN kwargs[f] ELSE defaults[f]]

ToolExecutionMetadataRequired == {"tool"}

ToolExecutionMetadataDefaults ==
    [tool |-> "", success |-> TRUE, error |-> None, prompt_tokens |-> None,
     completion_tokens |-> None, rows_returned |-> None]

GeneHit(gene_id, symbol, description, species, chromosome, start, end, source) ==
    [gene_id |-> gene_id, symbol |-> symbol, description |-> description,
     species |-> species, chromosome |-> chromosome, start |-> start,
     end |-> end, source |-> source]

GWASHitRequired == {"gene_name", "pvalue"}

GWASHitDefaults ==
    [gene_name |-> None, pvalue |-> None, trait |-> None, variant_id |-> None,
     effect_allele |-> None, sample_size |-> None, pubmed_id |-> None,
     study_accession |-> None]

GOAnnotRequired == {}

GOAnnotDefaults ==
    [go_id |-> None, term |-> None, aspect |-> None, evidence_code |-> None,
     reference |-> None, qualifier |-> None]

PathwayRequired == {"pathway_id"}

PathwayDefaults == [pathway_id |-> None, description |-> None, database |-> Some("KEGG")]

PubMedSummaryRequired == {"pmid", "title"}

PubMedSummaryDefaults ==
    [pmid |-> None, title |-> None, abstract |-> None, doi |-> None, url |-> None,
     journal |-> None, pubdate |-> None, authors |-> None]

\* ---------------------------------------------------------------------------
\* seen_genes: a Python dict, kept as its items in insertion order
\* ---------------------------------------------------------------------------

InDict(d, k) == \E i \in 1..Len(d) : d[i].k = k

\* d.get(k)
DictGet(d, k) ==
    IF InDict(d, k) THEN Some(d[CHOOSE i \in 1..Len(d) : d[i].k = k].v) ELSE None

\* A mutant of DictSet: a store that forgets every other key.
DictSetSingle(d, k, v) == << [k |-> k, v |-> v] >>

\* The mutant of SourceTag: every search tool is tagged "ensembl".
SourceTagEnsembl(tool) == "ensembl"

\* The mutant of DictSet: a store that appends an item even for a known key.
DictSetAppend(d, k, v) == Append(d, [k |-> k, v |-> v])

\* A mutant of DictSet: a store that moves a known key to the end.
DictSetMoveToEnd(d, k, v) ==
    Append(SelectSeq(d, LAMBDA item : item.k # k), [k |-> k, v |-> v])

\* d[k] = v: a known key keeps its position, a new key goes last.
DictSet(d, k, v) ==
    IF InDict(d, k)
    THEN [i \in 1..Len(d) |-> IF d[i].k = k THEN [k |-> k, v |-> v] ELSE d[i]]
    ELSE Append(d, [k |-> k, v |-> v])

\* list(d.values())
DictValues(d) == [i \in 1..Len(d) |-> d[i].v]

\* ---------------------------------------------------------------------------
\* Raw tool results
\* ---------------------------------------------------------------------------

RawNone == [kind |-> "none"]

RawList(rows) == [kind |-> "list", rows |-> rows]

RawDict(obj) == [kind |-> "dict", obj |-> obj]

EmptyDict == <<>>

\* not raw_result
Falsy(raw) ==
    \/ raw.kind = "none"
    \/ raw.kind = "list" /\ raw.rows = <<>>
    \/ raw.kind = "dict" /\ DOMAIN raw.obj = {}

\* len(raw_result) if isinstance(raw_result, list) else None
RowsReturned(raw) == IF raw.kind = "list" THEN Some(Len(raw.rows)) ELSE None

\* ---------------------------------------------------------------------------
\* convert_to_structured_result: one iteration of its loop over tool_results
\* ---------------------------------------------------------------------------

\* tool_name.startswith("ensembl"), over the names of the tool table.
StartsWithEnsembl(tool) ==
    tool \in {"ensembl_search_genes", "ensembl_gene_info", "ensembl_orthologs"}

\* The source tag of the first gene branch.
SourceTag(tool) == IF StartsWithEnsembl(tool) THEN "ensembl" ELSE "gramene"

\* The identifier fallback chain of the first gene branch.
SearchGeneId(entry) == OrS(OrS(Get(entry, "id"), Get(entry, "gene_id")), Get(entry, "_id"))

\* The GeneHit the first gene branch builds from one entry.
SearchGeneHit(entry, gene_id, tool) ==
    GeneHit(gene_id,
            OrS(OrS(Get(entry, "display_id"), Get(entry, "symbol")), Get(entry, "name")),
            OrS(OrS(Get(entry, "description"), Get(entry, "name")), Get(entry, "title")),
            OrS(Get(entry, "species"), Get2(entry, "taxon", "scientific_name")),
            OrS(Get(entry, "seq_region_name"), Get(entry, "chromosome")),
            OrI(Get(entry, "start"), Get2(entry, "location", "start")),
            OrI(Get(entry, "end"), Get2(entry, "location", "end")),
            SourceTag(tool))

\* ensembl_search_genes, gramene_gene_search, gramene_gene_symbol_search: an
\* entry whose identifier is new is stored, any other entry is skipped.
RECURSIVE MapSearchGenes(_, _, _)
MapSearchGenes(seen, rows, tool) ==
    IF rows = <<>> THEN seen
    ELSE LET entry == Head(rows)
             gene_id == SearchGeneId(entry)
         IN  MapSearchGenes(
                 IF TruthyS(gene_id) /\ ~InDict(seen, gene_id[1])
                 THEN DictSet(seen, gene_id[1], SearchGeneHit(entry, gene_id[1], tool))
                 ELSE seen,
                 Tail(rows), tool)

\* seen_genes.get(gene_id) or GeneHit(gene_id=gene_id, source=source)
StoredOrNew(seen, gene_id, source) ==
    IF InDict(seen, gene_id) THEN DictGet(seen, gene_id)[1]
    ELSE GeneHit(gene_id, None, None, None, None, None, None, source)

\* The mutant of MapEnsemblGeneInfo: the branch without its `if gene_id`
\* guard, which stores a record under the empty identifier.
MapEnsemblGeneInfoUnguarded(seen, entry) ==
    LET gene_id == IF TruthyS(Get(entry, "id")) THEN Get(entry, "id")[1] ELSE ""
        gh == StoredOrNew(seen, gene_id, "ensembl")
    IN  DictSet(seen, gene_id,
                [gh EXCEPT !.symbol = OrS(gh.symbol, Get(entry, "display_name")),
                           !.start = OrI(gh.start, Get(entry, "start")),
                           !.end = OrI(gh.end, Get(entry, "end"))])

\* ensembl_gene_info: fill the falsy fields of the stored record.
MapEnsemblGeneInfo(seen, entry) ==
    LET gene_id == Get(entry, "id") IN
    IF ~TruthyS(gene_id) THEN seen
    ELSE LET gh == StoredOrNew(seen, gene_id[1], "ensembl") IN
         DictSet(seen, gene_id[1],
                 [gh EXCEPT !.symbol = OrS(gh.symbol, Get(entry, "display_name")),
                            !.description = OrS(gh.description, Get(entry, "description")),
                            !.species = OrS(gh.species, Get(entry, "species")),
                            !.chromosome = OrS(gh.chromosome, Get(entry, "seq_region_name")),
                            !.start = OrI(gh.start, Get(entry, "start")),
                            !.end = OrI(gh.end, Get(entry, "end"))])

\* gramene_gene_lookup: fill symbol, description and species only.
MapGrameneGeneLookup(seen, entry) ==
    LET gene_id == OrS(Get(entry, "gene_id"), Get(entry, "id")) IN
    IF ~TruthyS(gene_id) THEN seen
    ELSE LET gh == StoredOrNew(seen, gene_id[1], "gramene") IN
         DictSet(seen, gene_id[1],
                 [gh EXCEPT !.symbol = OrS(gh.symbol, Get(entry, "symbol")),
                            !.description = OrS(gh.description, Get(entry, "name")),
                            !.species = OrS(gh.species, Get2(entry, "taxon", "scientific_name"))])

\* ensembl_orthologs: the targets of raw_result.get("orthologs", []).
RECURSIVE MapOrthologs(_, _)
MapOrthologs(seen, homs) ==
    IF homs = <<>> THEN seen
    ELSE LET tgt == IF "target" \in DOMAIN Head(homs) THEN Head(homs).target ELSE EmptyDict
             gene_id == Get(tgt, "id")
         IN  MapOrthologs(
                 IF TruthyS(gene_id) /\ ~InDict(seen, gene_id[1])
                 THEN DictSet(seen, gene_id[1],
                              GeneHit(gene_id[1], Get(tgt, "gene_symbol"), None,
                                      Get(tgt, "species"), Get(tgt, "chromosome"),
                                      Get(tgt, "start"), Get(tgt, "end"), "ensembl"))
                 ELSE seen,
                 Tail(homs))

\* The keyword arguments the mapper passes to each evidence model.
PubMedSearchKwargs(pmid) == [pmid |-> Some(pmid), title |-> Some(""), abstract |-> Some("")]

PubMedFetchKwargs(entry) ==
    [pmid |-> GetD(entry, "elocationid", ""), title |-> GetD(entry, "title", ""),
     abstract |-> GetD(entry, "abstract", "")]

GWASHitKwargs(entry) ==
    [trait |-> GetD(entry, "trait", ""),
     p_value |-> OrI(Get(entry, "pvalue"), GetD(entry, "p_value", 0)),
     odds_ratio |-> GetD(entry, "odds_ratio", 0),
     confidence_interval |-> GetD(entry, "confidence_interval", ""),
     study |-> OrS(Get(entry, "study_id"), GetD(entry, "study", "")),
     population |-> Some("")]

GOAnnotKwargs(entry) ==
    [term |-> GetD(entry, "term", ""), evidence |-> GetD(entry, "evidence", ""),
     aspect |-> GetD(entry, "aspect", ""), assigned_by |-> GetD(entry, "assigned_by", "")]

PathwayKwargs(pathway_id) ==
    [pathway_id |-> Some(pathway_id), name |-> Some(""), description |-> Some("")]

\* The keyword arguments an evidence branch passes for each row of the result.
KwargsOf(tool_name, rows) ==
    [i \in 1..Len(rows) |->
        CASE tool_name = "pubmed_search" -> PubMedSearchKwargs(rows[i])
          [] tool_name = "pubmed_fetch_summaries" -> PubMedFetchKwargs(rows[i])
          [] tool_name = "quickgo_annotations" -> GOAnnotKwargs(rows[i])
          [] tool_name = "kegg_pathways" -> PathwayKwargs(rows[i])
          [] OTHER -> GWASHitKwargs(rows[i])]

\* The rows of an evidence branch, each turned into its model; the branch raises
\* when a row's keywords miss a required field.
MapRows(kwargs, defaults) == [i \in 1..Len(kwargs) |-> BaseModel(defaults, kwargs[i])]

RowsValidate(kwargs, required) == \A i \in 1..Len(kwargs) : Validates(required, kwargs[i])

\* The metadata record of one tool result (worker.py builds it without success
\* and error, which keep their defaults).
MetadataOf(tr) ==
    BaseModel(ToolExecutionMetadataDefaults,
              [tool |-> tr.tool_name, prompt_tokens |-> None, completion_tokens |-> None,
               rows_returned |-> RowsReturned(tr.result)])

\* A GeneSearchResult as constructed, with the dedup map beside it.
NewAggregate ==
    [genes |-> <<>>, gwas_hits |-> <<>>, go_annotations |-> <<>>, pathways |-> <<>>,
     pubmed_summaries |-> <<>>, metadata |-> <<>>, explanation |-> None]

GeneSearchTools == {"ensembl_search_genes", "gramene_gene_search", "gramene_gene_symbol_search"}

GwasTools == {"gwas_hits", "gwas_trait_search", "gwas_advanced_search"}

\* Whether the loop body raises on this tool result.
StepRaises(tr) ==
    /\ tr.success /\ ~Falsy(tr.result)
    /\ \/ tr.tool_name = "pubmed_search"
          /\ ~RowsValidate(KwargsOf(tr.tool_name, tr.result.rows), PubMedSummaryRequired)
       \/ tr.tool_name = "pubmed_fetch_summaries"
          /\ ~RowsValidate(KwargsOf(tr.tool_name, tr.result.rows), PubMedSummaryRequired)
       \/ tr.tool_name \in GwasTools
          /\ ~RowsValidate(KwargsOf(tr.tool_name, tr.result.rows), GWASHitRequired)
       \/ tr.tool_name = "quickgo_annotations"
          /\ ~RowsValidate(KwargsOf(tr.tool_name, tr.result.rows), GOAnnotRequired)
       \/ tr.tool_name = "kegg_pathways"
          /\ ~RowsValidate(KwargsOf(tr.tool_name, tr.result.rows), PathwayRequired)

\* The dedup map after the loop body has run on this tool result.
StepSeen(seen, tr) ==
    IF ~tr.success \/ Falsy(tr.result) THEN seen
    ELSE CASE tr.tool_name \in GeneSearchTools ->
                  MapSearchGenes(seen, tr.result.rows, tr.tool_name)
           [] tr.tool_name = "ensembl_gene_info" -> MapEnsemblGeneInfo(seen, tr.result.obj)
           [] tr.tool_name = "gramene_gene_lookup" -> MapGrameneGeneLookup(seen, tr.result.obj)
           [] tr.tool_name = "ensembl_orthologs" ->
                  MapOrthologs(seen, IF "orthologs" \in DOMAIN tr.result.obj
                                     THEN tr.result.obj.orthologs ELSE <<>>)
           [] OTHER -> seen

\* The aggregate after the loop body has run on this tool result without raising:
\* the metadata record first, then the evidence of the matching branch.
StepResult(res, tr) ==
    LET r == [res EXCEPT !.metadata = Append(@, MetadataOf(tr))] IN
    IF ~tr.success \/ Falsy(tr.result) THEN r
    ELSE CASE tr.tool_name = "pubmed_search" ->
                  [r EXCEPT !.pubmed_summaries =
                       @ \o MapRows(KwargsOf(tr.tool_name, tr.result.rows), PubMedSummaryDefaults)]
           [] tr.tool_name = "pubmed_fetch_summaries" ->
                  [r EXCEPT !.pubmed_summaries =
                       @ \o MapRows(KwargsOf(tr.tool_name, tr.result.rows), PubMedSummaryDefaults)]
           [] tr.tool_name \in GwasTools ->
                  [r EXCEPT !.gwas_hits =
                       @ \o MapRows(KwargsOf(tr.tool_name, tr.result.rows), GWASHitDefaults)]
           [] tr.tool_name = "quickgo_annotations" ->
                  [r EXCEPT !.go_annotations =
                       @ \o MapRows(KwargsOf(tr.tool_name, tr.result.rows), GOAnnotDefaults)]
           [] tr.tool_name = "kegg_pathways" ->
                  [r EXCEPT !.pathways =
                       @ \o MapRows(KwargsOf(tr.tool_name, tr.result.rows), PathwayDefaults)]
           [] OTHER -> r

\* The log events of the loop body on this tool result: the only logging call
\* of the loop is the warning of the `not success or not raw_result` skip.
StepLog(tr) ==
    IF ~tr.success \/ Falsy(tr.result)
    THEN { [level |-> "warning", site |-> "convert_to_structured_result",
            tool |-> tr.tool_name] }
    ELSE {}

\* The tool names the if/elif chain of the loop body tests for.
MapperBranches ==
    GeneSearchTools \cup GwasTools
    \cup {"ensembl_gene_info", "gramene_gene_lookup", "ensembl_orthologs",
          "pubmed_search", "pubmed_fetch_summaries", "quickgo_annotations",
          "kegg_pathways"}

\* convert_to_structured_result on a whole list none of whose results makes the
\* loop body raise: the aggregate it returns.
RECURSIVE ConvertLoop(_, _, _)
ConvertLoop(res, seen, tool_results) ==
    IF tool_results = <<>> THEN [res EXCEPT !.genes = DictValues(seen)]
    ELSE ConvertLoop(StepResult(res, Head(tool_results)),
                     StepSeen(seen, Head(tool_results)), Tail(tool_results))

convert_to_structured_result(tool_results) == ConvertLoop(NewAggregate, <<>>, tool_results)

\* ---------------------------------------------------------------------------
\* The environment: what the LLM and the upstream services may answer
\* ---------------------------------------------------------------------------

\* The tool names the selection LLM's text may contain (the code tests each
\* name of the table for being a substring of the text).
\* A text may also contain names that are not in the table.
Responses ==
    { {},
      {"pubmed_search", "pubmed_fetch_summaries"},
      {"ensembl_search_genes", "gramene_gene_search"},
      {"ensembl_orthologs", "ensembl_gene_info"},
      {"gramene_gene_symbol_search", "gramene_gene_lookup"},
      {"ensembl_search_genes", "gramene_gene_lookup"},
      {"gwas_hits", "kegg_pathways"},
      {"gwas_advanced_search", "quickgo_annotations"},
      {"gwas_trait_info", "kegg_gene_info", "kegg_convert_id"},
      {"ensembl_search_genes", "kegg_pathways"},
      {"ensembl_orthologs", "gramene_gene_lookup", "no_such_tool"} }

\* The wrappers that let a transport failure of _get escape (no try/except).
RaisingWrappers == {"pubmed_fetch_summaries"}

\* The raw results a wrapper may return once its call has bound.
Payloads(tool) ==
    CASE tool = "pubmed_search" -> { RawList(<<>>), RawList(<<"P1", "P2">>) }
      [] tool = "pubmed_fetch_summaries" ->
           { RawList(<<>>),
             RawList(<< [title |-> "T1", elocationid |-> "doi: 10.1/x"] >>),
             RawList(<< [title |-> "T1"], [title |-> "T2"] >>) }
      [] tool = "ensembl_search_genes" ->
           { RawList(<<>>),
             RawList(<< [id |-> "G1", description |-> "desc"],
                        [id |-> "G2", display_id |-> "D2", start |-> MaxCoord,
                         end |-> MaxCoord],
                        [id |-> "G4", symbol |-> "S4"] >>) }
      [] tool = "gramene_gene_search" ->
           { RawList(<<>>),
             RawList(<< [id |-> "G1", symbol |-> "SYM"], [id |-> "G3"] >>) }
      [] tool = "gramene_gene_symbol_search" ->
           { RawList(<<>>),
             RawList(<< [name |-> "N1"] >>),
             RawList(<< [id |-> "", gene_id |-> "G2", name |-> "N2"], [_id |-> "G1"] >>) }
      [] tool = "ensembl_gene_info" ->
           { RawDict(EmptyDict), RawDict([display_name |-> "X"]) }
           \cup { RawDict([id |-> "G1", display_name |-> "SYM", start |-> c, end |-> c]) :
                  c \in Coords }
      [] tool = "gramene_gene_lookup" ->
           { RawDict(EmptyDict),
             RawDict([id |-> "G1", symbol |-> "SYM2", name |-> "desc2",
                      taxon |-> [scientific_name |-> "Oryza sativa"]]),
             RawDict([gene_id |-> "G2", id |-> "G1", symbol |-> "S2"]) }
      [] tool = "ensembl_orthologs" ->
           { RawDict(EmptyDict), RawDict([data |-> <<>>]) }
           \cup { RawDict([gene_id |-> "G0",
                           orthologs |-> << [target |-> [id |-> "G1", gene_symbol |-> "",
                                                         species |-> "zea_mays",
                                                         start |-> c, end |-> c]] >>]) :
                  c \in Coords }
      [] tool = "gwas_hits" ->
           { RawList(<<>>), RawList(<< [pvalue |-> 1, trait |-> "salt", variant_id |-> "rs1"] >>) }
      [] tool = "gwas_trait_search" ->
           { RawList(<<>>),
             RawList(<< [pvalue |-> 1, trait |-> "salt", gene_name |-> "", odds_ratio |-> 2] >>) }
      [] tool = "gwas_advanced_search" ->
           { RawList(<<>>),
             RawList(<< [pvalue |-> 1, trait |-> "salt", gene_name |-> "", study_id |-> "GCST1"] >>) }
      [] tool = "gwas_trait_info" ->
           { RawList(<<>>), RawList(<< [trait_id |-> "salt", trait_name |-> "salt"] >>) }
      [] tool = "quickgo_annotations" ->
           { RawList(<<>>),
             RawList(<< [go_id |-> "GO:1", term |-> "transport", aspect |-> "P",
                         evidence_code |-> "IDA"] >>) }
      [] tool = "kegg_pathways" -> { RawList(<<>>), RawList(<<"path:00910", "path:00910">>) }
      [] tool = "kegg_gene_info" -> { RawDict(EmptyDict), RawDict([name |-> "HKT1"]) }
      [] tool = "kegg_convert_id" -> { RawList(<<>>), RawList(<<"osa:1">>) }
      [] OTHER -> {}

\* ---------------------------------------------------------------------------
\* determine_tools_to_use, get_tool_arguments, execute_tool_parallel
\* ---------------------------------------------------------------------------

FallbackTools ==
    << "pubmed_search", "gramene_gene_search", "ensembl_search_genes",
       "gwas_trait_search", "quickgo_annotations" >>

\* The names of the table found in the response text, in table order.
ScanTools(named) == SelectSeq(ALL_TOOLS, LAMBDA t : t \in named)

\* The mutant of determine_tools_to_use: an except branch that returns no tool
\* instead of the fallback list.
determine_tools_no_fallback(response) ==
    IF response = None THEN <<>>
    ELSE LET scanned == ScanTools(response[1])
             selected_tools == IF scanned = <<>> THEN FallbackTools ELSE scanned
         IN  IF \E i \in 1..Len(selected_tools) : selected_tools[i] = "pubmed_search"
             THEN selected_tools
             ELSE <<"pubmed_search">> \o selected_tools

\* A mutant of determine_tools_to_use: the scan alone, without the default
\* list and without the insertion of pubmed_search.
determine_tools_scan_only(response) ==
    IF response = None THEN <<>> ELSE ScanTools(response[1])

\* determine_tools_to_use: response is None when the LLM call raised, else the
\* set of tool names its text contains.
determine_tools_to_use(response) ==
    IF response = None THEN FallbackTools
    ELSE LET scanned == ScanTools(response[1])
             selected_tools == IF scanned = <<>> THEN FallbackTools ELSE scanned
         IN  IF \E i \in 1..Len(selected_tools) : selected_tools[i] = "pubmed_search"
             THEN selected_tools
             ELSE <<"pubmed_search">> \o selected_tools

\* get_tool_arguments: tool_call is None when no forced function call came back
\* (the LLM raised or answered without one), else the arguments of the call.
get_tool_arguments(tool_name, tool_call) ==
    IF tool_name \notin ToolNames THEN <<>>
    ELSE IF tool_call # None THEN tool_call[1]
    ELSE generate_fallback_arguments(tool_name)

\* The mutant of execute_tool_parallel: a name that is not in the table is
\* reported as a successful call.
execute_tool_parallel_lenient(tool_name, arguments, outcome) ==
    IF tool_name \notin ToolNames
    THEN [tool_name |-> tool_name, success |-> TRUE, result |-> RawNone,
          arguments |-> arguments, error |-> None]
    ELSE IF ~Binds(tool_name, arguments) \/ outcome = None
    THEN [tool_name |-> tool_name, success |-> FALSE, result |-> RawNone,
          arguments |-> arguments, error |-> Some("Error")]
    ELSE [tool_name |-> tool_name, success |-> TRUE, result |-> outcome[1],
          arguments |-> arguments, error |-> None]

\* execute_tool_parallel: outcome is None when the wrapper raised, else its raw
\* result.
execute_tool_parallel(tool_name, arguments, outcome) ==
    IF tool_name \notin ToolNames
    THEN [tool_name |-> tool_name, success |-> FALSE, result |-> RawNone,
          arguments |-> arguments, error |-> Some("Unknown tool")]
    ELSE IF ~Binds(tool_name, arguments)
    THEN [tool_name |-> tool_name, success |-> FALSE, result |-> RawNone,
          arguments |-> arguments, error |-> Some("TypeError")]
    ELSE IF outcome = None
    THEN [tool_name |-> tool_name, success |-> FALSE, result |-> RawNone,
          arguments |-> arguments, error |-> Some("HTTPError")]
    ELSE [tool_name |-> tool_name, success |-> TRUE, result |-> outcome[1],
          arguments |-> arguments, error |-> None]

\* What a bound call of the wrapper may do.
WrapperOutcomes(tool_name) ==
    { Some(p) : p \in Payloads(tool_name) }
    \cup (IF tool_name \in RaisingWrappers THEN {None} ELSE {})

\* What a bound call of the wrapper may do with these arguments:
\* pubmed_fetch_summaries returns [] at once for an empty pmids list.
WrapperOutcomesFor(tool_name, arguments) ==
    IF tool_name = "pubmed_fetch_summaries" /\ arguments.pmids = <<>>
    THEN { Some(RawList(<<>>)) }
    ELSE WrapperOutcomes(tool_name)

\* ---------------------------------------------------------------------------
\* search(): the state of one run
\* ---------------------------------------------------------------------------

VARIABLES
    pc,                 \* where search() stands
    llm_response,       \* what the selection LLM answered (None: it raised)
    selected_tools,     \* the list determine_tools_to_use returned
    tool_executions,    \* the (tool_name, arguments) pairs built so far
    pending,            \* the submitted futures that have not completed
    raw_tool_results,   \* results, in as_completed order
    ci,                 \* the index of the next tool result the mapper takes
    result,             \* the GeneSearchResult being filled
    seen_genes,         \* the mapper's dedup map
    invocations,        \* wrapper calls made so far in this run
    response,           \* the dict search() returns (None before it returns)
    log                 \* the logger.warning / logger.error events of worker.py

\* tooling._get / tooling._post: the state of one call
VARIABLES
    http_pc,            \* "idle", "try", "sleep", "returned" or "raised"
    http_fn,            \* "_get" or "_post"
    attempt,            \* the local counter of failed attempts
    http_requests,      \* requests.get / requests.post calls issued so far
    http_excs,          \* the exceptions caught so far, oldest first
    slept               \* the time.sleep durations so far, oldest first

\* execute_tools_parallel: the ThreadPoolExecutor of one batch of any size
VARIABLES
    pool_pc,            \* "idle", "submit", "collect" or "returned"
    pool_n,             \* len(tool_executions)
    submitted,          \* futures submitted so far (in list order)
    threads,            \* worker threads the executor has started
    taken,              \* work items taken off the queue so far (FIFO)
    finished,           \* the calls whose execute_tool_parallel has returned
    collected           \* futures handed over by as_completed so far

\* main.chat: the conversations the process keeps
VARIABLES
    chat_histories,     \* the module-level dict: conversation id -> messages
    chat_uuids,         \* conversation ids generated so far
    chat_prompt,        \* the messages of the latest chat.completions call
    chat_reply          \* the latest HTTP reply of /chat (None before any)

searchVars == << pc, llm_response, selected_tools, tool_executions, pending,
                 raw_tool_results, ci, result, seen_genes, invocations, response,
                 log >>

httpVars == << http_pc, http_fn, attempt, http_requests, http_excs, slept >>

poolVars == << pool_pc, pool_n, submitted, threads, taken, finished, collected >>

chatVars == << chat_histories, chat_uuids, chat_prompt, chat_reply >>

vars == << searchVars, httpVars, poolVars, chatVars >>

\* No /chat request has been served: chat_histories = {}.
ChatIdle ==
    /\ chat_histories = <<>>
    /\ chat_uuids = 0
    /\ chat_prompt = <<>>
    /\ chat_reply = None

\* No _get / _post call is being followed.
HttpIdle ==
    /\ http_pc = "idle"
    /\ http_fn = "_get"
    /\ attempt = 0
    /\ http_requests = 0
    /\ http_excs = <<>>
    /\ slept = <<>>

\* No batch of arbitrary size is being followed.
PoolIdle ==
    /\ pool_pc = "idle"
    /\ pool_n = 0
    /\ submitted = 0
    /\ threads = 0
    /\ taken = 0
    /\ finished = {}
    /\ collected = 0

\* A log event: the logging call's level, the function it stands in, and the
\* tool it names ("" when it names none).
LogEvent(level, site, tool) == [level |-> level, site |-> site, tool |-> tool]

\* The dict of the except branch of search().
ErrorResponse(msg) ==
    [genes |-> <<>>, gwas_hits |-> <<>>, go_annotations |-> <<>>, pathways |-> <<>>,
     pubmed_summaries |-> <<>>, explanation |-> Some("Search failed due to error"),
     metadata |-> <<>>, quickgo_results |-> <<>>,
     execution_summary |->
        [total_tools_used |-> 0, successful_tools |-> 0, failed_tools |-> 1,
         tools_executed |-> <<>>, successful_tool_names |-> <<>>,
         failed_tool_names |-> <<>>, error |-> Some(msg)]]

ToolNamesOf(results) == [i \in 1..Len(results) |-> results[i].tool_name]

\* The dict of the normal path of search().
ResultDict(structured_result, quickgo_results, tools, results) ==
    LET ok == SelectSeq(results, LAMBDA r : r.success)
        ko == SelectSeq(results, LAMBDA r : ~r.success)
    IN  [genes |-> structured_result.genes,
         gwas_hits |-> structured_result.gwas_hits,
         go_annotations |-> structured_result.go_annotations,
         pathways |-> structured_result.pathways,
         pubmed_summaries |-> structured_result.pubmed_summaries,
         explanation |-> structured_result.explanation,
         metadata |-> structured_result.metadata,
         quickgo_results |-> quickgo_results,
         execution_summary |->
            [total_tools_used |-> Len(tools), successful_tools |-> Len(ok),
             failed_tools |-> Len(results) - Len(ok),
             tools_executed |-> ToolNamesOf(results),
             successful_tool_names |-> ToolNamesOf(ok),
             failed_tool_names |-> ToolNamesOf(ko), error |-> None]]

Init ==
    /\ ChatIdle
    /\ pc = "start"
    /\ llm_response = None
    /\ selected_tools = <<>>
    /\ tool_executions = <<>>
    /\ pending = {}
    /\ raw_tool_results = <<>>
    /\ ci = 1
    /\ result = NewAggregate
    /\ seen_genes = <<>>
    /\ invocations = 0
    /\ response = None
    /\ log = {}
    /\ HttpIdle
    /\ PoolIdle

\* Step 1 of search(): the selection LLM raises or names a set of tools.
DetermineTools ==
    /\ pc = "start"
    /\ \E r \in {None} \cup { Some(named) : named \in Responses } :
          /\ llm_response' = r
          /\ selected_tools' = determine_tools_to_use(r)
          /\ log' = IF r = None
                    THEN log \cup {LogEvent("error", "determine_tools_to_use", "")}
                    ELSE log
    /\ pc' = "args"
    /\ UNCHANGED << tool_executions, pending, raw_tool_results, ci, result,
                    seen_genes, invocations, response >>
    /\ UNCHANGED << httpVars, poolVars, chatVars >>

\* The outcomes of the forced function call of get_tool_arguments for a tool:
\* None (no call came back), or the arguments of the call.
ToolCalls(tool_name) == {None} \cup { Some(a) : a \in PlannerArguments(tool_name) }

\* The outcome in which the call came back with arguments that follow the schema.
SchemaCall(tool_name) == Some([n \in SchemaRequired(tool_name) |-> ArgValue(n)])

\* execute_tools_parallel, first loop: get_tool_arguments for every selected
\* tool in turn.  odd holds the positions whose LLM call did not follow the
\* schema.  (The logger.error of get_tool_arguments is not followed: it is
\* issued for a raised LLM call only, not for an answer without a call.)
GetToolArgumentsWith(plan) ==
    \E odd \in SUBSET (1..Len(plan)) :
       /\ Cardinality(odd) <= MaxArgFallbacks
       /\ \E calls \in [odd -> UNION { ToolCalls(plan[i]) : i \in odd }] :
             /\ \A i \in odd : /\ calls[i] \in ToolCalls(plan[i])
                                /\ calls[i] # SchemaCall(plan[i])
             /\ tool_executions' =
                   [i \in 1..Len(plan) |->
                       [tool_name |-> plan[i],
                        arguments |->
                           get_tool_arguments(plan[i],
                               IF i \in odd THEN calls[i] ELSE SchemaCall(plan[i]))]]

GetToolArguments ==
    /\ pc = "args"
    /\ tool_executions = <<>>
    /\ selected_tools # <<>>
    /\ GetToolArgumentsWith(selected_tools)
    /\ UNCHANGED << pc, llm_response, selected_tools, pending, raw_tool_results,
                    ci, result, seen_genes, invocations, response, log >>
    /\ UNCHANGED << httpVars, poolVars, chatVars >>

\* execute_tools_parallel: ThreadPoolExecutor(max_workers=min(n, 8)) and the
\* submission of every call.  The constructor raises ValueError for n = 0,
\* which search() turns into its error response.
SubmitAll ==
    /\ pc = "args"
    /\ Len(tool_executions) = Len(selected_tools)
    /\ IF Len(tool_executions) = 0
       THEN /\ pc' = "done"
            /\ response' = Some(ErrorResponse("max_workers must be greater than 0"))
            /\ log' = log \cup {LogEvent("error", "search", "")}
            /\ UNCHANGED pending
       ELSE /\ pc' = "pool"
            /\ pending' = 1..Len(tool_executions)
            /\ UNCHANGED << response, log >>
    /\ UNCHANGED << llm_response, selected_tools, tool_executions,
                    raw_tool_results, ci, result, seen_genes, invocations >>
    /\ UNCHANGED << httpVars, poolVars, chatVars >>

\* The mutant of CompleteTool: the worker thread maps its own result into the
\* aggregate as soon as its call has returned.
CompleteToolAndMap ==
    /\ pc = "pool"
    /\ \E i \in pending :
          LET te == tool_executions[i] IN
          /\ \E outcome \in (IF te.tool_name \in ToolNames
                                /\ Binds(te.tool_name, te.arguments)
                             THEN WrapperOutcomesFor(te.tool_name, te.arguments)
                             ELSE {None}) :
                LET r == execute_tool_parallel(te.tool_name, te.arguments, outcome) IN
                /\ raw_tool_results' = Append(raw_tool_results, r)
                /\ result' = [result EXCEPT !.metadata = Append(@, MetadataOf(r))]
          /\ pending' = pending \ {i}
          /\ pc' = IF pending = {i} THEN "convert" ELSE "pool"
    /\ invocations' = invocations + 1
    /\ UNCHANGED << llm_response, selected_tools, tool_executions, ci,
                    seen_genes, response, log >>
    /\ UNCHANGED << httpVars, poolVars, chatVars >>

\* One future completes and as_completed hands it over: its result is appended.
\* After the last one execute_tools_parallel returns and the mapper starts.
CompleteTool ==
    /\ pc = "pool"
    /\ \E i \in pending :
          LET te == tool_executions[i] IN
          /\ \E outcome \in (IF te.tool_name \in ToolNames
                                /\ Binds(te.tool_name, te.arguments)
                             THEN WrapperOutcomesFor(te.tool_name, te.arguments)
                             ELSE {None}) :
                LET r == execute_tool_parallel(te.tool_name, te.arguments, outcome) IN
                /\ raw_tool_results' = Append(raw_tool_results, r)
                /\ log' = IF r.success THEN log
                          ELSE log \cup {LogEvent("error", "execute_tool_parallel",
                                                  te.tool_name)}
          /\ invocations' = IF te.tool_name \in ToolNames
                            THEN invocations + 1 ELSE invocations
          /\ pending' = pending \ {i}
          /\ pc' = IF pending = {i} THEN "convert" ELSE "pool"
    /\ UNCHANGED << llm_response, selected_tools, tool_executions, ci, result,
                    seen_genes, response >>
    /\ UNCHANGED << httpVars, poolVars, chatVars >>

\* The mutant of ConvertStep: search() without its except branch, so that an
\* exception of the mapper leaves search().
ConvertStepPropagates ==
    /\ pc = "convert"
    /\ ci <= Len(raw_tool_results)
    /\ LET tr == raw_tool_results[ci] IN
       IF StepRaises(tr)
       THEN /\ pc' = "raised"
            /\ UNCHANGED << ci, result, seen_genes, log >>
       ELSE /\ result' = StepResult(result, tr)
            /\ seen_genes' = StepSeen(seen_genes, tr)
            /\ log' = log \cup StepLog(tr)
            /\ ci' = ci + 1
            /\ UNCHANGED pc
    /\ UNCHANGED << llm_response, selected_tools, tool_executions, pending,
                    raw_tool_results, invocations, response >>
    /\ UNCHANGED << httpVars, poolVars, chatVars >>

\* convert_to_structured_result: one iteration of the loop over tool_results.
\* An exception leaves the function and reaches the except branch of search().
ConvertStep ==
    /\ pc = "convert"
    /\ ci <= Len(raw_tool_results)
    /\ LET tr == raw_tool_results[ci] IN
       IF StepRaises(tr)
       THEN /\ pc' = "done"
            /\ response' = Some(ErrorResponse("ValidationError"))
            /\ log' = log \cup {LogEvent("error", "search", "")}
            /\ UNCHANGED << ci, result, seen_genes >>
       ELSE /\ result' = StepResult(result, tr)
            /\ seen_genes' = StepSeen(seen_genes, tr)
            /\ log' = log \cup StepLog(tr)
            /\ ci' = ci + 1
            /\ UNCHANGED << pc, response >>
    /\ UNCHANGED << llm_response, selected_tools, tool_executions, pending,
                    raw_tool_results, invocations >>
    /\ UNCHANGED << httpVars, poolVars, chatVars >>

\* convert_to_structured_result, after the loop: result.genes = list(values).
ConvertFinish ==
    /\ pc = "convert"
    /\ ci > Len(raw_tool_results)
    /\ result' = [result EXCEPT !.genes = DictValues(seen_genes)]
    /\ pc' = "explain"
    /\ UNCHANGED << llm_response, selected_tools, tool_executions, pending,
                    raw_tool_results, ci, seen_genes, invocations, response, log >>
    /\ UNCHANGED << httpVars, poolVars, chatVars >>

\* The mutant of GenerateExplanation: no try/except around the LLM call, so
\* that its failure reaches the except branch of search().
GenerateExplanationUnguarded ==
    /\ pc = "explain"
    /\ \E llm_ok \in BOOLEAN :
          IF llm_ok
          THEN /\ result' = [result EXCEPT !.explanation = Some("llm text")]
               /\ pc' = "respond"
               /\ UNCHANGED << response, log >>
          ELSE /\ pc' = "done"
               /\ response' = Some(ErrorResponse("APIError"))
               /\ log' = log \cup {LogEvent("error", "search", "")}
               /\ UNCHANGED result
    /\ UNCHANGED << llm_response, selected_tools, tool_executions, pending,
                    raw_tool_results, ci, seen_genes, invocations >>
    /\ UNCHANGED << httpVars, poolVars, chatVars >>

\* generate_explanation: the LLM's text, or the placeholder when the call raised.
GenerateExplanation ==
    /\ pc = "explain"
    /\ \E llm_ok \in BOOLEAN :
          /\ result' = [result EXCEPT !.explanation =
                           IF llm_ok THEN Some("llm text") ELSE Some("Analysis completed")]
          /\ log' = IF llm_ok THEN log
                    ELSE log \cup {LogEvent("error", "generate_explanation", "")}
    /\ pc' = "respond"
    /\ UNCHANGED << llm_response, selected_tools, tool_executions, pending,
                    raw_tool_results, ci, seen_genes, invocations, response >>
    /\ UNCHANGED << httpVars, poolVars, chatVars >>

\* Step 5 of search(): the extra quickgo_annotations call for the first gene,
\* the counts, and the response dict.
Respond ==
    /\ pc = "respond"
    /\ LET calls == /\ result.genes # <<>>
                    /\ TruthyS(OrS(Some(result.genes[1].gene_id), result.genes[1].symbol))
       IN  /\ \E q \in (IF calls THEN Payloads("quickgo_annotations") ELSE {RawList(<<>>)}) :
                 response' = Some(ResultDict(result, q.rows, selected_tools, raw_tool_results))
           /\ invocations' = IF calls THEN invocations + 1 ELSE invocations
    /\ pc' = "done"
    /\ UNCHANGED << llm_response, selected_tools, tool_executions, pending,
                    raw_tool_results, ci, result, seen_genes, log >>
    /\ UNCHANGED << httpVars, poolVars, chatVars >>

Next ==
    \/ DetermineTools
    \/ GetToolArguments
    \/ SubmitAll
    \/ CompleteTool
    \/ ConvertStep
    \/ ConvertFinish
    \/ GenerateExplanation
    \/ Respond

Spec == Init /\ [][Next]_vars

\* No search() run is being followed.
SearchIdle ==
    /\ pc = "idle"
    /\ llm_response = None
    /\ selected_tools = <<>>
    /\ tool_executions = <<>>
    /\ pending = {}
    /\ raw_tool_results = <<>>
    /\ ci = 1
    /\ result = NewAggregate
    /\ seen_genes = <<>>
    /\ invocations = 0
    /\ response = None
    /\ log = {}

\* ---------------------------------------------------------------------------
\* execute_tools_parallel and the steps after it on a caller-supplied plan
\* ---------------------------------------------------------------------------

\* Plans a caller of execute_tools_parallel may pass that determine_tools_to_use
\* never returns: they name a tool that ALL_TOOLS_DICT does not hold.
BatchPlans ==
    { << "no_such_tool" >>,
      << "no_such_tool", "kegg_pathways" >>,
      << "pubmed_fetch_summaries", "no_such_tool" >>,
      << "gramene_gene_search", "no_such_tool", "kegg_pathways" >> }

InitBatch ==
    /\ ChatIdle
    /\ pc = "args"
    /\ llm_response = None
    /\ selected_tools \in BatchPlans
    /\ tool_executions = <<>>
    /\ pending = {}
    /\ raw_tool_results = <<>>
    /\ ci = 1
    /\ result = NewAggregate
    /\ seen_genes = <<>>
    /\ invocations = 0
    /\ response = None
    /\ log = {}
    /\ HttpIdle
    /\ PoolIdle

NextBatch ==
    \/ GetToolArguments
    \/ SubmitAll
    \/ CompleteTool
    \/ ConvertStep
    \/ ConvertFinish
    \/ GenerateExplanation
    \/ Respond

BatchSpec == InitBatch /\ [][NextBatch]_vars

\* ---------------------------------------------------------------------------
\* Properties
\* ---------------------------------------------------------------------------

Done == pc = "done"

\* search() returned through its normal path.
ReturnedNormally == Done /\ response[1].execution_summary.error = None

\* search() returned the dict of its except branch.
ReturnedError == Done /\ response[1].execution_summary.error # None

GeneFieldsS == {"symbol", "description", "species", "chromosome"}

GeneFieldsI == {"start", "end"}

\* The gene records one tool result yields when mapped on an empty dedup map.
GeneRecordsOf(tr) == StepSeen(<<>>, tr)

NoDuplicateIds(genes) ==
    \A i, j \in 1..Len(genes) : genes[i].gene_id = genes[j].gene_id => i = j

\* C1: when the mapper takes a tool result that carries a gene record whose
\* identifier is already stored, every empty field of the stored GeneHit that
\* the record supplies is filled from it, whichever tool produced the record.
C1_MergeFillsEmptyFields ==
    [][ (pc = "convert" /\ ci' = ci + 1) =>
          LET cand == GeneRecordsOf(raw_tool_results[ci]) IN
          \A n \in 1..Len(cand) :
             InDict(seen_genes, cand[n].k) =>
                LET old == DictGet(seen_genes, cand[n].k)[1]
                    new == DictGet(seen_genes', cand[n].k)[1]
                    c == cand[n].v
                IN  /\ \A f \in GeneFieldsS :
                          (~TruthyS(old[f]) /\ TruthyS(c[f])) => new[f] = c[f]
                    /\ \A f \in GeneFieldsI :
                          (old[f] = None /\ c[f] # None) => new[f] = c[f]
      ]_vars

\* C2: at every point of the mapping and in the returned dict, no two GeneHit
\* records carry the same gene_id, and every key of the dedup map is the
\* gene_id of its record.
C2_OneGeneHitPerId ==
    /\ \A i, j \in 1..Len(seen_genes) : seen_genes[i].k = seen_genes[j].k => i = j
    /\ \A i \in 1..Len(seen_genes) : seen_genes[i].v.gene_id = seen_genes[i].k
    /\ NoDuplicateIds(result.genes)
    /\ Done => NoDuplicateIds(response[1].genes)

\* C2 witness: a run returned normally in which two different successful tool
\* results both carried gene G1, and the returned list holds G1 once.
C2_Witness ==
    /\ ReturnedNormally
    /\ \E i, j \in 1..Len(raw_tool_results) :
          /\ i < j
          /\ InDict(GeneRecordsOf(raw_tool_results[i]), "G1")
          /\ InDict(GeneRecordsOf(raw_tool_results[j]), "G1")
    /\ \E n \in 1..Len(response[1].genes) : response[1].genes[n].gene_id = "G1"

\* C3: once a field of a stored GeneHit holds a value (a non-empty string, or
\* any integer for start and end), no later step changes it.
C3_PopulatedNeverChanges ==
    [][ \A i \in 1..Len(seen_genes) :
           /\ Len(seen_genes') >= i
           /\ seen_genes'[i].k = seen_genes[i].k
           /\ seen_genes'[i].v.source = seen_genes[i].v.source
           /\ \A f \in GeneFieldsS :
                 TruthyS(seen_genes[i].v[f]) => seen_genes'[i].v[f] = seen_genes[i].v[f]
           /\ \A f \in GeneFieldsI :
                 seen_genes[i].v[f] # None => seen_genes'[i].v[f] = seen_genes[i].v[f]
      ]_vars

\* C4: the metadata record of every tool call carries that call's outcome:
\* success is false and the error message is kept exactly when the call failed.
C4_MetadataCarriesOutcome ==
    \A i \in 1..Len(result.metadata) :
       /\ result.metadata[i].success = raw_tool_results[i].success
       /\ result.metadata[i].error = raw_tool_results[i].error

\* C5: the dict a run returns through its normal path holds one metadata record
\* per wrapper invocation of the run, the extra quickgo_annotations call
\* included.
C5_OneRecordPerInvocation ==
    ReturnedNormally => Len(response[1].metadata) = invocations

\* C6: metadata records stand in the order the calls were issued: the i-th
\* record names the i-th selected tool.
C6_MetadataInIssueOrder ==
    \A i \in 1..Len(result.metadata) : result.metadata[i].tool = selected_tools[i]

\* The evidence a successful tool result yields is in the returned dict.
ContainsEvidenceOf(resp, tr) ==
    LET alone == StepResult(NewAggregate, tr)
        Within(xs, ys) == \A i \in 1..Len(xs) : \E j \in 1..Len(ys) : ys[j] = xs[i]
        ids == GeneRecordsOf(tr)
    IN  /\ Within(alone.pubmed_summaries, resp.pubmed_summaries)
        /\ Within(alone.gwas_hits, resp.gwas_hits)
        /\ Within(alone.go_annotations, resp.go_annotations)
        /\ Within(alone.pathways, resp.pathways)
        /\ \A n \in 1..Len(ids) :
              \E m \in 1..Len(resp.genes) : resp.genes[m].gene_id = ids[n].k

\* C7: when a batch holds a failed call and a successful one, every planned
\* call has a result, the returned dict has one metadata record per call and
\* holds the evidence of every successful call.
C7_FailureIsolation ==
    (/\ Done
     /\ \E i \in 1..Len(raw_tool_results) : ~raw_tool_results[i].success
     /\ \E i \in 1..Len(raw_tool_results) : raw_tool_results[i].success)
    => /\ Len(raw_tool_results) = Len(selected_tools)
       /\ Len(response[1].metadata) = Len(raw_tool_results)
       /\ \A i \in 1..Len(raw_tool_results) :
             raw_tool_results[i].success =>
                ContainsEvidenceOf(response[1], raw_tool_results[i])

\* C8: mapping the payload of a successful tool call never raises, and the
\* returned dict holds one GWASHit per entry of the GWAS tools' results.
C8_MappingNeverRaises ==
    Done =>
      /\ response[1].execution_summary.error # Some("ValidationError")
      /\
         LET gwas == SelectSeq(raw_tool_results,
                               LAMBDA r : r.success /\ r.tool_name \in GwasTools)
             Rows[n \in 0..Len(gwas)] ==
                 IF n = 0 THEN 0 ELSE Rows[n - 1] + Len(gwas[n].result.rows)
         IN  Len(response[1].gwas_hits) = Rows[Len(gwas)]

\* Failure isolation restricted to the runs that return through the normal
\* path, i.e. those in which no mapping step raised.
FailureIsolationWhenMapped ==
    (/\ ReturnedNormally
     /\ \E i \in 1..Len(raw_tool_results) : ~raw_tool_results[i].success
     /\ \E i \in 1..Len(raw_tool_results) : raw_tool_results[i].success)
    => /\ Len(raw_tool_results) = Len(selected_tools)
       /\ Len(response[1].metadata) = Len(raw_tool_results)
       /\ \A i \in 1..Len(raw_tool_results) :
             raw_tool_results[i].success =>
                ContainsEvidenceOf(response[1], raw_tool_results[i])

\* C9 as claimed: after a failed selection call no wrapper is invoked and the
\* run returns the unsuccessful dict.
C9_PlanningFailureStopsRun ==
    (pc # "start" /\ llm_response = None)
    => /\ invocations = 0
       /\ Done => ReturnedError

\* C9 as amended: after a failed selection call the five default tools are
\* selected, each is executed, and a run that returns normally reports five
\* tools.
C9_PlanningFailureFallsBack ==
    (pc # "start" /\ llm_response = None)
    => /\ selected_tools = << "pubmed_search", "gramene_gene_search",
                              "ensembl_search_genes", "gwas_trait_search",
                              "quickgo_annotations" >>
       /\ pc \in {"convert", "explain", "respond"} =>
             /\ Len(raw_tool_results) = 5
             /\ \A i \in 1..5 : \E j \in 1..5 :
                   raw_tool_results[j].tool_name = selected_tools[i]
       /\ ReturnedNormally =>
             /\ response[1].execution_summary.total_tools_used = 5
             /\ Len(response[1].execution_summary.tools_executed) = 5
             /\ Len(response[1].metadata) = 5

\* C9 witness: the selection call failed and the run returned normally with the
\* records of five executed tools.
C9_Witness ==
    /\ llm_response = None
    /\ ReturnedNormally
    /\ Len(response[1].metadata) = 5
    /\ invocations >= 5

\* C10: when the selection names no tool, a run that returns through its normal
\* path has empty evidence lists, no metadata record, no failed tool and no
\* error field.
C10_EmptyPlanIsEmptySuccess ==
    (ReturnedNormally /\ llm_response = Some({}))
    => /\ response[1].metadata = <<>>
       /\ response[1].genes = <<>>
       /\ response[1].gwas_hits = <<>>
       /\ response[1].go_annotations = <<>>
       /\ response[1].pathways = <<>>
       /\ response[1].pubmed_summaries = <<>>
       /\ response[1].execution_summary.failed_tools = 0
       /\ response[1].execution_summary.error = None

\* The evidence one tool result adds to an empty aggregate is empty.
NoEvidenceFrom(tr) ==
    LET alone == StepResult(NewAggregate, tr) IN
    /\ alone.pubmed_summaries = <<>>
    /\ alone.gwas_hits = <<>>
    /\ alone.go_annotations = <<>>
    /\ alone.pathways = <<>>
    /\ GeneRecordsOf(tr) = <<>>

UnknownTool(tr) == tr.tool_name \notin ToolNames

C12_UnmappedResultLogged ==
    \A i \in 1..Len(raw_tool_results) :
       (/\ i < ci
        /\ raw_tool_results[i].success
        /\ ~Falsy(raw_tool_results[i].result)
        /\ raw_tool_results[i].tool_name \notin MapperBranches)
       => /\ NoEvidenceFrom(raw_tool_results[i])
          /\ \E e \in log : /\ e.site = "convert_to_structured_result"
                            /\ e.tool = raw_tool_results[i].tool_name

\* The evidence lists and metadata of an aggregate or of a returned dict.
EvidenceOf(r) ==
    << r.genes, r.gwas_hits, r.go_annotations, r.pathways, r.pubmed_summaries,
       r.metadata >>

Placeholder == Some("Analysis completed")

\* C13: the explanation step never touches the evidence and always hands over
\* to the response step; when the synthesis call failed, the returned dict
\* holds exactly what the mapper made of the tool results, with the
\* placeholder as its explanation.
C13_SynthesisFailureKeepsEvidence ==
    /\ [][ pc = "explain" =>
              /\ pc' = "respond"
              /\ EvidenceOf(result') = EvidenceOf(result)
              /\ result'.explanation # None ]_vars
    /\ []( (Done /\ result.explanation = Placeholder) =>
              /\ ReturnedNormally
              /\ response[1].explanation = Placeholder
              /\ EvidenceOf(response[1]) =
                    EvidenceOf(convert_to_structured_result(raw_tool_results)) )

\* C13 witness: the synthesis call failed in a run that had gathered genes and
\* PubMed ids, and the run returned them.
C13_Witness ==
    /\ ReturnedNormally
    /\ LogEvent("error", "generate_explanation", "") \in log
    /\ response[1].explanation = Placeholder
    /\ response[1].genes # <<>>
    /\ response[1].pubmed_summaries # <<>>

ResultKeys ==
    {"genes", "gwas_hits", "go_annotations", "pathways", "pubmed_summaries",
     "metadata", "explanation", "execution_summary"}

\* C14: search() never ends by raising: it stands at one of its steps or has
\* returned a dict with every evidence key; a failed tool call is named in the
\* execution_summary of a run that returns through its normal path.
C14_SearchNeverRaises ==
    /\ pc \in {"start", "args", "pool", "convert", "explain", "respond", "done"}
    /\ Done =>
          /\ response # None
          /\ ResultKeys \subseteq DOMAIN response[1]
    /\ ReturnedNormally =>
          LET ko == SelectSeq(raw_tool_results, LAMBDA r : ~r.success) IN
          /\ response[1].execution_summary.failed_tools = Len(ko)
          /\ response[1].execution_summary.failed_tool_names = ToolNamesOf(ko)

\* C14 witness: the mapper raised on a tool result and search() returned the
\* dict of its except branch.
C14_Witness ==
    /\ ReturnedError
    /\ \E i \in 1..Len(raw_tool_results) : StepRaises(raw_tool_results[i])
    /\ ResultKeys \subseteq DOMAIN response[1]

\* C15: a planned call whose arguments are outside the bounds the schema
\* declares is never executed: it has no successful result.
C15_OutOfBoundsRejected ==
    \A i \in 1..Len(raw_tool_results) :
       ~InBounds(raw_tool_results[i].tool_name, raw_tool_results[i].arguments)
       => ~raw_tool_results[i].success

\* ---------------------------------------------------------------------------
\* tooling._get and tooling._post: one call under any pattern of failures
\* ---------------------------------------------------------------------------

MAX_RETRIES == 3

BACKOFF_BASE == 2

\* What requests.get / requests.post followed by raise_for_status may raise.
HttpExceptions == {"ConnectionError", "Timeout", "HTTPError"}

\* The mutant of GivesUp: one more round before the exception is re-raised.
GivesUpLate(n) == n > MAX_RETRIES + 1

\* if attempt > _MAX_RETRIES: raise
GivesUp(n) == n > MAX_RETRIES

\* sleep_time = _BACKOFF_BASE ** (attempt - 1)
SleepTime(n) == BACKOFF_BASE ^ (n - 1)

InitHttp ==
    /\ ChatIdle
    /\ SearchIdle
    /\ PoolIdle
    /\ http_pc = "try"
    /\ http_fn \in {"_get", "_post"}
    /\ attempt = 0
    /\ http_requests = 0
    /\ http_excs = <<>>
    /\ slept = <<>>

\* The try block: the request is issued and answers with a status that
\* raise_for_status accepts; the function returns the response.
HttpSucceed ==
    /\ http_pc = "try"
    /\ http_requests' = http_requests + 1
    /\ http_pc' = "returned"
    /\ UNCHANGED << http_fn, attempt, http_excs, slept >>
    /\ UNCHANGED << searchVars, poolVars, chatVars >>

\* The try block raises: the except block counts the attempt and either
\* re-raises or goes on to back off.
HttpFail ==
    /\ http_pc = "try"
    /\ \E exc \in HttpExceptions : http_excs' = Append(http_excs, exc)
    /\ http_requests' = http_requests + 1
    /\ attempt' = attempt + 1
    /\ http_pc' = IF GivesUp(attempt + 1) THEN "raised" ELSE "sleep"
    /\ UNCHANGED << http_fn, slept >>
    /\ UNCHANGED << searchVars, poolVars, chatVars >>

\* The rest of the except block: time.sleep(sleep_time), then the loop goes round.
HttpBackOff ==
    /\ http_pc = "sleep"
    /\ slept' = Append(slept, SleepTime(attempt))
    /\ http_pc' = "try"
    /\ UNCHANGED << http_fn, attempt, http_requests, http_excs >>
    /\ UNCHANGED << searchVars, poolVars, chatVars >>

NextHttp ==
    \/ HttpSucceed
    \/ HttpFail
    \/ HttpBackOff

HttpSpec == InitHttp /\ [][NextHttp]_vars

\* Every request is bounded by its timeout and every sleep ends, so a step
\* that can be taken is taken.
HttpFairSpec == HttpSpec /\ WF_vars(NextHttp)

HttpEnded == http_pc \in {"returned", "raised"}

\* C16 as claimed: one call of _get / _post issues at most _MAX_RETRIES HTTP
\* requests in total.
C16_AtMostMaxRetriesRequests == http_requests <= MAX_RETRIES

\* C16 as amended: one call issues at most _MAX_RETRIES + 1 requests (the
\* first and _MAX_RETRIES retries), sleeps _BACKOFF_BASE ** (k - 1) seconds
\* after the k-th failure and before the next request, re-raises after the
\* failure number _MAX_RETRIES + 1, and always ends.
C16_AtMostMaxRetriesRetries ==
    /\ []( /\ http_requests <= MAX_RETRIES + 1
           /\ attempt = Len(http_excs)
           /\ Len(slept) <= MAX_RETRIES
           /\ \A k \in 1..Len(slept) : slept[k] = BACKOFF_BASE ^ (k - 1)
           /\ http_pc = "try" => /\ http_requests = attempt
                                 /\ Len(slept) = attempt
           /\ http_pc = "raised" => /\ http_requests = MAX_RETRIES + 1
                                    /\ attempt = MAX_RETRIES + 1
                                    /\ Len(slept) = MAX_RETRIES
           /\ http_pc = "returned" => http_requests = attempt + 1 )
    /\ <>HttpEnded

\* C16 witness: every request of a call failed and the call re-raised after
\* its fourth request.
C16_Witness ==
    /\ http_pc = "raised"
    /\ http_requests = MAX_RETRIES + 1
    /\ slept = << 1, 2, 4 >>

\* The index of the first tool result of the run that yields a gene record
\* with this identifier (0 when there is none).
FirstWith(gene_id) ==
    IF \E i \in 1..Len(raw_tool_results) : InDict(GeneRecordsOf(raw_tool_results[i]), gene_id)
    THEN CHOOSE i \in 1..Len(raw_tool_results) :
            /\ InDict(GeneRecordsOf(raw_tool_results[i]), gene_id)
            /\ \A j \in 1..(i - 1) : ~InDict(GeneRecordsOf(raw_tool_results[j]), gene_id)
    ELSE 0

\* An entry of a search tool's result that carries an id and a symbol (and no
\* display_id, which the symbol chain would prefer).
IdAndSymbol(e) ==
    /\ TruthyS(Get(e, "id"))
    /\ TruthyS(Get(e, "symbol"))
    /\ ~TruthyS(Get(e, "display_id"))

\* C17: in a run that returned normally, an entry with an id and a symbol in
\* the result of a search tool, which is the first record of the run for that
\* id, is in the returned genes exactly once, with that symbol and with the
\* source tag of its tool ("ensembl" for an ensembl tool, else "gramene"); and
\* the returned pathways are the pathway ids kegg_pathways returned, one
\* Pathway each, in order.
C17_GeneAndPathwayMapped ==
    ReturnedNormally =>
       /\ \A i \in 1..Len(raw_tool_results) :
             LET tr == raw_tool_results[i] IN
             (tr.success /\ tr.tool_name \in GeneSearchTools) =>
                \A n \in 1..Len(tr.result.rows) :
                   LET e == tr.result.rows[n] IN
                   (/\ IdAndSymbol(e)
                    /\ FirstWith(e.id) = i
                    /\ \A m \in 1..(n - 1) : SearchGeneId(tr.result.rows[m]) # Some(e.id))
                   => /\ Cardinality({ g \in 1..Len(response[1].genes) :
                                         response[1].genes[g].gene_id = e.id }) = 1
                      /\ \E g \in 1..Len(response[1].genes) :
                            /\ response[1].genes[g].gene_id = e.id
                            /\ response[1].genes[g].symbol = Some(e.symbol)
                            /\ response[1].genes[g].source =
                                  (IF tr.tool_name = "ensembl_search_genes"
                                   THEN "ensembl" ELSE "gramene")
       /\ \A i \in 1..Len(raw_tool_results) :
             LET tr == raw_tool_results[i] IN
             (tr.success /\ tr.tool_name = "kegg_pathways") =>
                /\ Len(response[1].pathways) = Len(tr.result.rows)
                /\ \A n \in 1..Len(tr.result.rows) :
                      response[1].pathways[n].pathway_id = Some(tr.result.rows[n])

\* C17 witness: ensembl_search_genes returned an entry with id G4 and symbol
\* S4, kegg_pathways returned pathway ids, and the run returned both.
C17_Witness ==
    /\ ReturnedNormally
    /\ \E i \in 1..Len(raw_tool_results) :
          /\ raw_tool_results[i].tool_name = "ensembl_search_genes"
          /\ raw_tool_results[i].success
          /\ \E n \in 1..Len(raw_tool_results[i].result.rows) :
                IdAndSymbol(raw_tool_results[i].result.rows[n])
    /\ \E g \in 1..Len(response[1].genes) :
          /\ response[1].genes[g].gene_id = "G4"
          /\ response[1].genes[g].symbol = Some("S4")
          /\ response[1].genes[g].source = "ensembl"
    /\ response[1].pathways # <<>>

\* The list with the elements at i and i + 1 exchanged.
SwapAt(xs, i) ==
    [n \in 1..Len(xs) |-> IF n = i THEN xs[i + 1] ELSE IF n = i + 1 THEN xs[i] ELSE xs[n]]

Range(xs) == { xs[n] : n \in 1..Len(xs) }

\* Two tool results whose gene records have no identifier in common.
DisjointIds(tr1, tr2) ==
    \A n \in 1..Len(GeneRecordsOf(tr1)) : ~InDict(GeneRecordsOf(tr2), GeneRecordsOf(tr1)[n].k)

\* C18: when two tool results mapped one after the other carry gene records
\* with different identifiers, mapping them in the other order gives the same
\* set of GeneHit records.
C18_OrderIndependence ==
    pc = "explain" =>
       \A i \in 1..(Len(raw_tool_results) - 1) :
          DisjointIds(raw_tool_results[i], raw_tool_results[i + 1]) =>
             Range(result.genes) =
                Range(convert_to_structured_result(SwapAt(raw_tool_results, i)).genes)

\* C18 witness: ensembl_orthologs yielded G1, gramene_gene_lookup right after
\* it yielded G2, and both records are in the mapped aggregate.
C18_Witness ==
    /\ pc = "explain"
    /\ \E i \in 1..(Len(raw_tool_results) - 1) :
          /\ GeneRecordsOf(raw_tool_results[i]) # <<>>
          /\ GeneRecordsOf(raw_tool_results[i + 1]) # <<>>
          /\ DisjointIds(raw_tool_results[i], raw_tool_results[i + 1])
    /\ Len(result.genes) = 2

\* C19: the aggregate and the dedup map change only in the calling thread
\* after execute_tools_parallel has returned: no future is pending and every
\* planned call has its result.
C19_AggregateMutatedAfterPool ==
    [][ (result' # result \/ seen_genes' # seen_genes) =>
           /\ pc \in {"convert", "explain"}
           /\ pending = {}
           /\ Len(raw_tool_results) = Len(tool_executions) ]_vars

\* C19 witness: a batch of at least two calls has completed and the mapper has
\* taken its first result.
C19_Witness ==
    /\ pc = "convert"
    /\ ci > 1
    /\ pending = {}
    /\ Len(raw_tool_results) >= 2
    /\ result.metadata # <<>>

\* ---------------------------------------------------------------------------
\* execute_tools_parallel: the ThreadPoolExecutor on a batch of any size
\* ---------------------------------------------------------------------------

\* Largest batch followed.
MaxBatch == 9

PoolCap == 8

\* The mutant of MaxWorkers: one thread per planned call.
MaxWorkersUncapped(n) == n

\* max_workers=min(len(tool_executions), 8)
MaxWorkers(n) == IF n < PoolCap THEN n ELSE PoolCap

\* The calls a worker thread is executing.
InFlight == taken - Cardinality(finished)

InitPool ==
    /\ ChatIdle
    /\ SearchIdle
    /\ HttpIdle
    /\ pool_pc = "submit"
    /\ pool_n \in 1..MaxBatch
    /\ submitted = 0
    /\ threads = 0
    /\ taken = 0
    /\ finished = {}
    /\ collected = 0

\* executor.submit for the next (tool_name, args) pair: the work item is queued
\* and the executor starts a thread while it has fewer than max_workers.
PoolSubmit ==
    /\ pool_pc = "submit"
    /\ submitted < pool_n
    /\ submitted' = submitted + 1
    /\ threads' = IF threads < MaxWorkers(pool_n) THEN threads + 1 ELSE threads
    /\ pool_pc' = IF submitted + 1 = pool_n THEN "collect" ELSE "submit"
    /\ UNCHANGED << pool_n, taken, finished, collected >>
    /\ UNCHANGED << searchVars, httpVars, chatVars >>

\* A worker thread that executes no call takes the oldest queued work item and
\* enters execute_tool_parallel.
PoolTake ==
    /\ pool_pc \in {"submit", "collect"}
    /\ taken < submitted
    /\ InFlight < threads
    /\ taken' = taken + 1
    /\ UNCHANGED << pool_pc, pool_n, submitted, threads, finished, collected >>
    /\ UNCHANGED << searchVars, httpVars, chatVars >>

\* execute_tool_parallel returns in one of the worker threads.
PoolFinish ==
    /\ pool_pc \in {"submit", "collect"}
    /\ \E i \in (1..taken) \ finished : finished' = finished \cup {i}
    /\ UNCHANGED << pool_pc, pool_n, submitted, threads, taken, collected >>
    /\ UNCHANGED << searchVars, httpVars, chatVars >>

\* as_completed hands over a finished future and its result is appended.
PoolCollect ==
    /\ pool_pc = "collect"
    /\ collected < Cardinality(finished)
    /\ collected' = collected + 1
    /\ UNCHANGED << pool_pc, pool_n, submitted, threads, taken, finished >>
    /\ UNCHANGED << searchVars, httpVars, chatVars >>

\* The as_completed loop has handed over every future: the with block ends and
\* execute_tools_parallel returns results.
PoolReturn ==
    /\ pool_pc = "collect"
    /\ collected = pool_n
    /\ pool_pc' = "returned"
    /\ UNCHANGED << pool_n, submitted, threads, taken, finished, collected >>
    /\ UNCHANGED << searchVars, httpVars, chatVars >>

NextPool ==
    \/ PoolSubmit
    \/ PoolTake
    \/ PoolFinish
    \/ PoolCollect
    \/ PoolReturn

PoolSpec == InitPool /\ [][NextPool]_vars

\* Every tool call ends (each request has a timeout and a bounded number of
\* retries) and the threads and the calling thread keep running.
PoolFairSpec == PoolSpec /\ WF_vars(NextPool)

\* C20: at no time are more than min(N, 8) calls in flight; when
\* execute_tools_parallel returns every planned call has been started and has
\* completed; and it does return.
C20_BoundedConcurrency ==
    /\ []( /\ InFlight <= (IF pool_n < 8 THEN pool_n ELSE 8)
           /\ InFlight >= 0
           /\ pool_pc = "returned" =>
                 /\ taken = pool_n
                 /\ finished = 1..pool_n
                 /\ collected = pool_n )
    /\ <>(pool_pc = "returned")

\* C20 witness: a batch of nine calls with eight of them in flight and the
\* ninth submitted and waiting in the queue.
C20_Witness ==
    /\ pool_n = 9
    /\ submitted = 9
    /\ InFlight = 8
    /\ taken = 8

\* ---------------------------------------------------------------------------
\* Order of processing and the shape of the gene list
\* ---------------------------------------------------------------------------

\* The optional fields of a GeneHit that are not None.
PopulatedFields(g) ==
    { f \in GeneFieldsS \cup GeneFieldsI : g[f] # None }

\* The identifiers of a gene list, each with the set of its populated fields.
ShapeOf(genes) ==
    { [gene_id |-> genes[n].gene_id, populated |-> PopulatedFields(genes[n])] :
         n \in 1..Len(genes) }

\* C21: for the tool results of a run, mapping them with two neighbours
\* exchanged (hence in any other order) gives the same gene identifiers and,
\* for each identifier, the same set of populated fields.
C21_OrderKeepsShape ==
    pc = "explain" =>
       \A i \in 1..(Len(raw_tool_results) - 1) :
          ShapeOf(result.genes) =
             ShapeOf(convert_to_structured_result(SwapAt(raw_tool_results, i)).genes)

\* ---------------------------------------------------------------------------
\* The identifiers of fetched PubMed summaries
\* ---------------------------------------------------------------------------

\* The pmid fields of the PubMedSummary records the mapper builds from one
\* tool result.
SummaryPmidsOf(tr) ==
    LET made == StepResult(NewAggregate, tr).pubmed_summaries
    IN  [n \in 1..Len(made) |-> made[n].pmid]

\* C22: the summaries mapped from a successful pubmed_fetch_summaries result
\* carry PubMed ids of the call's pmids argument, none of them empty and no
\* two of them equal.
C22_FetchedSummaryCarriesPmid ==
    pc = "explain" =>
       \A i \in 1..Len(raw_tool_results) :
          LET tr == raw_tool_results[i] IN
          (tr.tool_name = "pubmed_fetch_summaries" /\ tr.success) =>
             LET ids == SummaryPmidsOf(tr) IN
             /\ Len(ids) = Len(tr.result.rows)
             /\ \A n \in 1..Len(ids) :
                   /\ ids[n] # None
                   /\ ids[n] # Some("")
                   /\ ids[n][1] \in Range(tr.arguments.pmids)
             /\ \A n, m \in 1..Len(ids) : n # m => ids[n] # ids[m]

\* ---------------------------------------------------------------------------
\* Wrappers and the exhausted transport
\* ---------------------------------------------------------------------------

\* C23: a call of a wrapper of the table whose arguments bind never raises to
\* execute_tool_parallel: every such call is recorded as successful (with an
\* empty result when the transport gave up).
C23_WrappersDegradeToEmpty ==
    \A i \in 1..Len(raw_tool_results) :
       LET tr == raw_tool_results[i] IN
       (tr.tool_name \in ToolNames /\ Binds(tr.tool_name, tr.arguments)) =>
          /\ tr.success
          /\ tr.error = None

\* ---------------------------------------------------------------------------
\* Evidence lists other than genes
\* ---------------------------------------------------------------------------

\* The number of entries in the successful list results of these tools.
EntriesFrom(tools) ==
    LET fed == SelectSeq(raw_tool_results,
                         LAMBDA r : r.success /\ r.tool_name \in tools
                                    /\ r.result.kind = "list")
        Rows[n \in 0..Len(fed)] ==
            IF n = 0 THEN 0 ELSE Rows[n - 1] + Len(fed[n].result.rows)
    IN  Rows[Len(fed)]

\* C24: in the dict a run returns, each evidence list other than genes has one
\* element per entry of the successful results of the tools that feed it.
C24_EvidenceAppendedWithoutDedup ==
    Done =>
       /\ Len(response[1].pubmed_summaries) =
             EntriesFrom({"pubmed_search", "pubmed_fetch_summaries"})
       /\ Len(response[1].gwas_hits) = EntriesFrom(GwasTools)
       /\ Len(response[1].go_annotations) = EntriesFrom({"quickgo_annotations"})
       /\ Len(response[1].pathways) = EntriesFrom({"kegg_pathways"})

\* The same count in the runs that return through the normal path, i.e. those
\* in which no GWAS tool returned an entry.
EvidenceAppendedWhenMapped ==
    ReturnedNormally =>
       /\ Len(response[1].pubmed_summaries) =
             EntriesFrom({"pubmed_search", "pubmed_fetch_summaries"})
       /\ Len(response[1].gwas_hits) = EntriesFrom(GwasTools)
       /\ Len(response[1].go_annotations) = EntriesFrom({"quickgo_annotations"})
       /\ Len(response[1].pathways) = EntriesFrom({"kegg_pathways"})

\* ---------------------------------------------------------------------------
\* The order of the gene list
\* ---------------------------------------------------------------------------

\* The identifiers of a gene list, in order.
GeneIdsOf(genes) == [n \in 1..Len(genes) |-> genes[n].gene_id]

\* The keys of the dedup map, in order.
KeysOf(d) == [n \in 1..Len(d) |-> d[n].k]

\* C25: result.genes is assigned once, after the last tool result has been
\* processed, from the dedup map in its order; a step of the mapper never
\* moves or removes an identifier the map already holds (a new identifier goes
\* last); so the genes are in the order in which their identifiers were first
\* seen.
C25_GeneOrderIsFirstSeen ==
    /\ [][ /\ result'.genes # result.genes =>
                /\ result.genes = <<>>
                /\ pc = "convert" /\ pc' = "explain"
                /\ ci > Len(raw_tool_results)
                /\ GeneIdsOf(result'.genes) = KeysOf(seen_genes)
           /\ Len(seen_genes') >= Len(seen_genes)
           /\ \A n \in 1..Len(seen_genes) : seen_genes'[n].k = seen_genes[n].k ]_vars
    /\ [](pc = "explain" =>
            \A a, b \in 1..Len(result.genes) :
               a < b => /\ FirstWith(result.genes[a].gene_id) > 0
                        /\ FirstWith(result.genes[a].gene_id)
                              <= FirstWith(result.genes[b].gene_id))

\* C25 witness: ensembl_search_genes stored G1 first of several genes,
\* gramene_gene_lookup later merged its symbol into G1, and G1 is still the
\* first gene of the list.
C25_Witness ==
    /\ pc = "explain"
    /\ Len(result.genes) >= 2
    /\ result.genes[1].gene_id = "G1"
    /\ result.genes[1].symbol = Some("SYM2")
    /\ \E i, j \in 1..Len(raw_tool_results) :
          /\ i < j
          /\ raw_tool_results[i].tool_name = "ensembl_search_genes"
          /\ InDict(GeneRecordsOf(raw_tool_results[i]), "G1")
          /\ raw_tool_results[j].tool_name = "gramene_gene_lookup"
          /\ InDict(GeneRecordsOf(raw_tool_results[j]), "G1")

\* ---------------------------------------------------------------------------
\* Gene-shaped records without an identifier
\* ---------------------------------------------------------------------------

\* The non-empty values a record holds under these keys.
IdsUnder(e, keys) == { e[k] : k \in { x \in keys \cap DOMAIN e : e[x] # "" } }

\* The identifiers the gene-shaped records of a tool result carry under the
\* keys of their tool's chain.
CarriedIds(tr) ==
    IF ~tr.success THEN {}
    ELSE IF tr.tool_name \in GeneSearchTools /\ tr.result.kind = "list"
    THEN UNION { IdsUnder(tr.result.rows[n], {"id", "gene_id", "_id"}) :
                    n \in 1..Len(tr.result.rows) }
    ELSE IF tr.tool_name = "ensembl_gene_info" /\ tr.result.kind = "dict"
    THEN IdsUnder(tr.result.obj, {"id"})
    ELSE IF tr.tool_name = "gramene_gene_lookup" /\ tr.result.kind = "dict"
    THEN IdsUnder(tr.result.obj, {"gene_id", "id"})
    ELSE IF tr.tool_name = "ensembl_orthologs" /\ tr.result.kind = "dict"
            /\ "orthologs" \in DOMAIN tr.result.obj
    THEN UNION { IF "target" \in DOMAIN tr.result.obj.orthologs[n]
                 THEN IdsUnder(tr.result.obj.orthologs[n].target, {"id"}) ELSE {} :
                    n \in 1..Len(tr.result.obj.orthologs) }
    ELSE {}

\* C26: every key of the dedup map is a non-empty identifier that a record of
\* an already processed tool result carries under a key of its tool's chain
\* (so a record without one adds nothing to the map), each stored GeneHit has
\* its key as gene_id, and no GeneHit of the aggregate or of the returned dict
\* has an empty gene_id.
C26_NoGeneWithoutIdentifier ==
    /\ \A n \in 1..Len(seen_genes) :
          /\ seen_genes[n].k # ""
          /\ seen_genes[n].v.gene_id = seen_genes[n].k
          /\ seen_genes[n].k \in
                UNION { CarriedIds(raw_tool_results[i]) : i \in 1..(ci - 1) }
    /\ \A n \in 1..Len(result.genes) : result.genes[n].gene_id # ""
    /\ Done => \A n \in 1..Len(response[1].genes) : response[1].genes[n].gene_id # ""

\* C26 witness: the mapper has processed a non-empty successful result of a
\* gene tool none of whose records carries an identifier, and the genes of the
\* aggregate all come from another tool's result.
C26_Witness ==
    /\ pc = "explain"
    /\ result.genes # <<>>
    /\ \E i \in 1..Len(raw_tool_results) :
          LET tr == raw_tool_results[i] IN
          /\ tr.success
          /\ ~Falsy(tr.result)
          /\ tr.tool_name \in GeneSearchTools
                \cup {"ensembl_gene_info", "gramene_gene_lookup", "ensembl_orthologs"}
          /\ CarriedIds(tr) = {}

\* ---------------------------------------------------------------------------
\* The plan of determine_tools_to_use
\* ---------------------------------------------------------------------------

\* C27: once determine_tools_to_use has returned, whatever the selection LLM
\* answered and also when it raised, the selected tools are a non-empty list
\* without duplicates that contains pubmed_search and only keys of the tool
\* table; the calls search() plans from it are calls of known tools, and the
\* batch handed to the pool is not empty.
C27_PlanIsValid ==
    pc \notin {"start", "idle"} =>
       /\ selected_tools # <<>>
       /\ \A i, j \in 1..Len(selected_tools) :
             i # j => selected_tools[i] # selected_tools[j]
       /\ \E i \in 1..Len(selected_tools) : selected_tools[i] = "pubmed_search"
       /\ \A i \in 1..Len(selected_tools) : selected_tools[i] \in ToolNames
       /\ \A i \in 1..Len(tool_executions) :
             /\ tool_executions[i].tool_name = selected_tools[i]
             /\ tool_executions[i].tool_name \in ToolNames
       /\ pc = "pool" => tool_executions # <<>>

\* C27 witness: the selection text named two tools of the table and a name
\* that is not in it, without pubmed_search; the plan handed to the pool is
\* pubmed_search followed by the two tools.
C27_Witness ==
    /\ pc = "pool"
    /\ llm_response # None
    /\ "no_such_tool" \in llm_response[1]
    /\ "pubmed_search" \notin llm_response[1]
    /\ selected_tools = << "pubmed_search", "ensembl_orthologs", "gramene_gene_lookup" >>
    /\ Len(tool_executions) = 3

\* ---------------------------------------------------------------------------
\* Calls planned with the fallback arguments
\* ---------------------------------------------------------------------------

\* C28: a call of a selected tool that was planned with the arguments of
\* _generate_fallback_arguments binds to its wrapper: it does not end in
\* execute_tool_parallel with an argument error.
C28_FallbackArgumentsBind ==
    \A i \in 1..Len(raw_tool_results) :
       LET tr == raw_tool_results[i] IN
       (/\ tr.tool_name \in Range(selected_tools)
        /\ tr.arguments = generate_fallback_arguments(tr.tool_name))
       => /\ Binds(tr.tool_name, tr.arguments)
          /\ tr.error # Some("TypeError")

\* ---------------------------------------------------------------------------
\* The execution summary of the returned dict
\* ---------------------------------------------------------------------------

\* The counts of an execution summary add up and its two name lists split the
\* executed tools.
SummaryConsistent(s) ==
    /\ s.successful_tools + s.failed_tools = s.total_tools_used
    /\ s.total_tools_used = Len(s.tools_executed)
    /\ Len(s.successful_tool_names) = s.successful_tools
    /\ Len(s.failed_tool_names) = s.failed_tools
    /\ Range(s.successful_tool_names) \cup Range(s.failed_tool_names)
          = Range(s.tools_executed)
    /\ Range(s.successful_tool_names) \cap Range(s.failed_tool_names) = {}

\* C29: the execution summary of every dict search() returns, from its normal
\* path or from its except branch, is consistent.
C29_SummaryConsistent ==
    Done => SummaryConsistent(response[1].execution_summary)

\* The same for the dicts of the normal path only.
SummaryConsistentOnNormalPath ==
    ReturnedNormally => SummaryConsistent(response[1].execution_summary)

\* ---------------------------------------------------------------------------
\* main.chat: the /chat endpoint and the stored conversations
\* ---------------------------------------------------------------------------

\* "Keep only last 20 messages"
HistoryLimit == 20

\* Conversation ids generated by uuid4 that are followed.
MaxUuids == 1

\* The conversation id a client may send without having received it.
ClientIds == {"c1"}

\* str(uuid.uuid4()) of the n-th generated id: a name no client id equals and
\* no earlier generated id equals.
Uuid(n) == CASE n = 1 -> "u1" [] n = 2 -> "u2" [] OTHER -> "u3"

\* datetime.now().isoformat(); the reading of the clock is not followed.
Now == "now"

ChatMessage(role, content, timestamp) ==
    [role |-> role, content |-> content, timestamp |-> timestamp]

\* request.message
ChatTexts == {"m"}

\* request.chat_history: empty (the default) or messages of the client's own.
ClientHistories == { <<>>, << ChatMessage("assistant", "h", None) >> }

\* The outcomes of client.chat.completions.create: it raised (None), or it
\* returned a message whose content is None or a text.
LlmReplies == { None, Some(None), Some(Some("a")) }

SystemMessage == [role |-> "system", content |-> "gene research assistant"]

\* The messages list sent to the model: the system message, then role and
\* content of every message of full_history.
PromptOf(full_history) ==
    << SystemMessage >>
    \o [n \in 1..Len(full_history) |->
           [role |-> full_history[n].role, content |-> full_history[n].content]]

\* A mutant of KeepLast: a slice that keeps one element less.
KeepLastUnaligned(xs, n) ==
    IF Len(xs) <= n - 1 THEN xs ELSE SubSeq(xs, Len(xs) - n + 2, Len(xs))

\* xs[-n:]
KeepLast(xs, n) ==
    IF Len(xs) <= n THEN xs ELSE SubSeq(xs, Len(xs) - n + 1, Len(xs))

\* if len(history) > 20: history = history[-20:]
TrimHistory(history) ==
    IF Len(history) > HistoryLimit THEN KeepLast(history, HistoryLimit) ELSE history

InitChat ==
    /\ SearchIdle
    /\ HttpIdle
    /\ PoolIdle
    /\ ChatIdle

\* One /chat request, from the first line of the handler to its reply.  The
\* handler is a coroutine without an await, so the event loop runs it to its
\* end before it serves another request.
Chat ==
    /\ \E requested \in {None, Some("")}
                        \cup { Some(k) : k \in ClientIds \cup { chat_histories[n].k :
                                                                 n \in 1..Len(chat_histories) } },
          message \in ChatTexts,
          supplied \in ClientHistories,
          reply \in LlmReplies :
          LET generated == ~TruthyS(requested)
              conversation_id == IF generated THEN Uuid(chat_uuids + 1) ELSE requested[1]
              created == IF InDict(chat_histories, conversation_id) THEN chat_histories
                         ELSE DictSet(chat_histories, conversation_id, <<>>)
              stored == DictGet(created, conversation_id)[1]
              user_message == ChatMessage("user", message, Some(Now))
              full_history == stored \o supplied \o << user_message >>
          IN  /\ generated => chat_uuids < MaxUuids
              /\ chat_uuids' = IF generated THEN chat_uuids + 1 ELSE chat_uuids
              /\ chat_prompt' = PromptOf(full_history)
              /\ IF reply = None \/ reply[1] = None
                 THEN \* the call raised, or ChatMessage(content=None) did: HTTP 500
                      /\ chat_histories' = created
                      /\ chat_reply' = Some([status |-> 500, body |-> None])
                 ELSE LET assistant_response == reply[1][1]
                          assistant_message ==
                              ChatMessage("assistant", assistant_response, Some(Now))
                          updated ==
                              TrimHistory(stored \o << user_message, assistant_message >>)
                      IN  /\ chat_histories' = DictSet(created, conversation_id, updated)
                          /\ chat_reply' =
                                Some([status |-> 200,
                                      body |-> Some([response |-> assistant_response,
                                                     conversation_id |-> conversation_id,
                                                     chat_history |-> updated,
                                                     success |-> TRUE])])
    /\ UNCHANGED << searchVars, httpVars, poolVars >>

NextChat == Chat

ChatSpec == InitChat /\ [][NextChat]_vars

\* The messages a client may supply in request.chat_history.
ClientMessages == UNION { Range(h) : h \in ClientHistories }

\* A stored history: at most 20 messages, an even number of them, user and
\* assistant in turn from a user message on, none of them a client-supplied one.
WellFormedHistory(h) ==
    /\ Len(h) <= HistoryLimit
    /\ Len(h) % 2 = 0
    /\ \A i \in 1..Len(h) :
          /\ h[i].role = (IF i % 2 = 1 THEN "user" ELSE "assistant")
          /\ h[i] \notin ClientMessages

\* C30: after any sequence of /chat requests every stored history is well
\* formed, and a request answered with an error leaves the messages of every
\* conversation as they were (a conversation it created holds none).
C30_StoredHistoryWellFormed ==
    /\ [](\A n \in 1..Len(chat_histories) : WellFormedHistory(chat_histories[n].v))
    /\ [][ (chat_reply' # None /\ chat_reply'[1].status = 500) =>
              \A n \in 1..Len(chat_histories') :
                 chat_histories'[n].v =
                    (IF InDict(chat_histories, chat_histories'[n].k)
                     THEN DictGet(chat_histories, chat_histories'[n].k)[1]
                     ELSE <<>>) ]_vars

\* C30 witness: a request that carried a client-supplied history was answered
\* for a conversation that already held 20 messages; the prompt had the system
\* message, the 20 stored messages, the supplied one and the new one, and the
\* conversation again holds 20 messages.
C30_Witness ==
    /\ chat_reply # None
    /\ chat_reply[1].status = 200
    /\ Len(chat_prompt) = HistoryLimit + 3
    /\ \E n \in 1..Len(chat_histories) :
          /\ chat_histories[n].k = chat_reply[1].body[1].conversation_id
          /\ Len(chat_histories[n].v) = HistoryLimit

====
